---- MODULE Spec2Model ----
(***************************************************************************)
(* Model of server.Context (server/context.go): NewContext, Init,          *)
(* initEngine, parseGossipBootstrapResolvers, GetHTTPClient and            *)
(* parseAttributes.                                                        *)
(*                                                                         *)
(* A Go string is a sequence of one-character strings.  A uint64 is a      *)
(* tuple of four 16-bit limbs, least significant first, so that the full   *)
(* 64-bit width of strconv.ParseUint and of the int64 conversion is kept.  *)
(***************************************************************************)
EXTENDS Integers, Sequences, FiniteSets, TLC

VARIABLES
  Addr,                      \* Context.Addr
  Stores,                    \* Context.Stores
  Attrs,                     \* Context.Attrs
  GossipBootstrap,           \* Context.GossipBootstrap
  CacheSize,                 \* Context.CacheSize
  Engines,                   \* Context.Engines
  NodeAttributes,            \* Context.NodeAttributes
  GossipBootstrapResolvers,  \* Context.GossipBootstrapResolvers
  httpClient,                \* Context.httpClient (0 is nil)
  httpClientMu,              \* Context.httpClientMu (0 is unlocked, else the holder)
  unresolvable,              \* environment: the addresses gossip.NewResolver rejects
  initErr,                   \* the error returned by the last Init call
  initCalls,                 \* the collaborator calls made by the last Init call
  initOK,                    \* some Init call has returned nil
  changed,                   \* a flag was set since the last Init call
  again,                     \* the last Init call repeated a successful one, no flag set between
  pc,                        \* position of each GetHTTPClient caller
  err,                       \* GetHTTPClient's local err of each caller
  ret,                       \* what each caller's last GetHTTPClient call returned
  tried,                     \* the caller's current call invoked client.NewHTTPClient
  constructions,             \* number of client.NewHTTPClient calls so far
  failures                   \* number of those that returned an error

ctxVars == <<Addr, Stores, Attrs, GossipBootstrap, CacheSize, Engines,
             NodeAttributes, GossipBootstrapResolvers, unresolvable,
             initErr, initCalls, initOK, changed, again>>
httpVars == <<httpClient, httpClientMu, pc, err, ret, tried, constructions, failures>>
vars == <<ctxVars, httpVars>>

----------------------------------------------------------------------------
(* Bounds *)

\* number of concurrent GetHTTPClient callers
NumThreads == 2

\* most client constructions the environment lets fail
MaxFailures == 2

\* longest Stores flag of the exhaustive store inputs
MaxStoresLen == 7

\* longest Attrs flag of the exhaustive attribute inputs
MaxAttrLen == 5

----------------------------------------------------------------------------
(* Strings *)

Digits == <<"0", "1", "2", "3", "4", "5", "6", "7", "8", "9">>

IsDigit(c) == \E d \in 1..10 : Digits[d] = c

DigitVal(c) == (CHOOSE d \in 1..10 : Digits[d] = c) - 1

\* strings.HasPrefix
HasPrefix(s, prefix) ==
  /\ Len(s) >= Len(prefix)
  /\ SubSeq(s, 1, Len(prefix)) = prefix

\* index of the first sep in s at or after from, 0 if there is none
IndexFrom(s, sep, from) ==
  IF \E i \in from..Len(s) : s[i] = sep
  THEN CHOOSE i \in from..Len(s) : s[i] = sep /\ \A j \in from..(i - 1) : s[j] # sep
  ELSE 0

\* strings.Split(s, sep) for a one-character sep: "" splits into one empty string
RECURSIVE Split(_, _)
Split(s, sep) ==
  LET i == IndexFrom(s, sep, 1) IN
  IF i = 0 THEN <<s>>
  ELSE <<SubSeq(s, 1, i - 1)>> \o Split(SubSeq(s, i + 1, Len(s)), sep)

----------------------------------------------------------------------------
(* parseAttributes *)

\* mutant: empty attributes are kept
parseAttributesNoFilter(attrsStr) == Split(attrsStr, ":")

parseAttributes(attrsStr) ==
  SelectSeq(Split(attrsStr, ":"), LAMBDA attr : Len(attr) # 0)

----------------------------------------------------------------------------
(* uint64 and int64 *)

LimbBase == 65536

Uint64Zero == <<0, 0, 0, 0>>

\* n * 10 + d on four limbs; over is the carry out of the top limb
MulAdd10(n, d) ==
  LET t1 == n[1] * 10 + d
      t2 == n[2] * 10 + (t1 \div LimbBase)
      t3 == n[3] * 10 + (t2 \div LimbBase)
      t4 == n[4] * 10 + (t3 \div LimbBase)
  IN [val  |-> <<t1 % LimbBase, t2 % LimbBase, t3 % LimbBase, t4 % LimbBase>>,
      over |-> (t4 \div LimbBase) > 0]

\* strconv.ParseUint(s, 10, 64): no sign, no prefix, digits only, value < 2^64
RECURSIVE ParseDigits(_, _, _)
ParseDigits(s, i, n) ==
  IF i > Len(s) THEN [ok |-> TRUE, val |-> n]
  ELSE IF ~IsDigit(s[i]) THEN [ok |-> FALSE, val |-> Uint64Zero]
  ELSE LET m == MulAdd10(n, DigitVal(s[i])) IN
       IF m.over THEN [ok |-> FALSE, val |-> Uint64Zero]
       ELSE ParseDigits(s, i + 1, m.val)

ParseUint(s) ==
  IF Len(s) = 0 THEN [ok |-> FALSE, val |-> Uint64Zero]
  ELSE ParseDigits(s, 1, Uint64Zero)

\* two's complement negation of a 64-bit pattern
Negate64(u) ==
  LET t1 == (LimbBase - 1 - u[1]) + 1
      t2 == (LimbBase - 1 - u[2]) + (t1 \div LimbBase)
      t3 == (LimbBase - 1 - u[3]) + (t2 \div LimbBase)
      t4 == (LimbBase - 1 - u[4]) + (t3 \div LimbBase)
  IN <<t1 % LimbBase, t2 % LimbBase, t3 % LimbBase, t4 % LimbBase>>

\* int64(size) for a uint64 size: the same 64 bits read as two's complement,
\* given as a sign and a magnitude
ToInt64(size) ==
  IF size[4] >= LimbBase \div 2
  THEN [neg |-> TRUE, mag |-> Negate64(size)]
  ELSE [neg |-> FALSE, mag |-> size]

Int64Zero == [neg |-> FALSE, mag |-> Uint64Zero]

----------------------------------------------------------------------------
(* Errors, engines and the record of collaborator calls *)

Nil == [kind |-> "nil", detail |-> <<>>]

Errorf(kind, detail) == [kind |-> kind, detail |-> detail]

NoEngine ==
  [kind |-> "nil", attrs |-> <<>>, size |-> Int64Zero, dir |-> <<>>, cacheSize |-> 0]

\* engine.NewInMem(attrs, size)
NewInMem(attrs, size) ==
  [kind |-> "InMem", attrs |-> attrs, size |-> size, dir |-> <<>>, cacheSize |-> 0]

\* engine.NewRocksDB(attrs, dir, cacheSize)
NewRocksDB(attrs, dir, cacheSize) ==
  [kind |-> "RocksDB", attrs |-> attrs, size |-> Int64Zero, dir |-> dir,
   cacheSize |-> cacheSize]

Call(fn, a, b) == [fn |-> fn, a |-> a, b |-> b]

----------------------------------------------------------------------------
(* storesRE: ([^=]+)=([^,]+)(,|$) *)

\* mutant: group 2 is [^,=]+
StoresREMatchesNoEq(s, i, k1, k2) ==
  LET eq  == i + k1
      end == eq + k2
  IN /\ k1 >= 1 /\ k2 >= 1 /\ end <= Len(s)
     /\ s[eq] = "="
     /\ \/ end < Len(s) /\ s[end + 1] = ","
        \/ end = Len(s)
     /\ \A j \in i..(eq - 1) : s[j] # "="
     /\ \A j \in (eq + 1)..end : s[j] # "," /\ s[j] # "="

\* the pattern matches at i with k1 characters in group 1 and k2 in group 2
StoresREMatches(s, i, k1, k2) ==
  LET eq  == i + k1
      end == eq + k2
  IN /\ k1 >= 1 /\ k2 >= 1 /\ end <= Len(s)
     /\ s[eq] = "="
     /\ \/ end < Len(s) /\ s[end + 1] = ","
        \/ end = Len(s)
     /\ \A j \in i..(eq - 1) : s[j] # "="
     /\ \A j \in (eq + 1)..end : s[j] # ","

\* the match the engine prefers at i: both groups greedy; <<>> if none.
\* A submatch is <<whole, group 1, group 2, group 3>>.
StoresREMatchAt(s, i) ==
  LET rest == Len(s) - i
      K1   == {k1 \in 1..(rest - 1) :
                 /\ s[i + k1] = "="
                 /\ \E k2 \in 1..(rest - k1) : StoresREMatches(s, i, k1, k2)}
  IN IF K1 = {} THEN <<>>
     ELSE LET k1  == CHOOSE k \in K1 : \A o \in K1 : o <= k
              K2  == {k2 \in 1..(rest - k1) : StoresREMatches(s, i, k1, k2)}
              k2  == CHOOSE k \in K2 : \A o \in K2 : o <= k
              end == i + k1 + k2
              g3  == IF end < Len(s) THEN <<",">> ELSE <<>>
          IN <<SubSeq(s, i, end + Len(g3)), SubSeq(s, i, i + k1 - 1),
               SubSeq(s, i + k1 + 1, end), g3>>

\* storesRE.FindAllStringSubmatch(s, -1): successive leftmost non-overlapping matches
RECURSIVE FindAllFrom(_, _)
FindAllFrom(s, from) ==
  IF from > Len(s) THEN <<>>
  ELSE LET m == StoresREMatchAt(s, from) IN
       IF m = <<>> THEN FindAllFrom(s, from + 1)
       ELSE <<m>> \o FindAllFrom(s, from + Len(m[1]))

FindAllStringSubmatch(s) == FindAllFrom(s, 1)

----------------------------------------------------------------------------
(* initEngine *)

initEngine(attrsStr, path, cacheSize) ==
  LET attrs == parseAttributes(attrsStr)
      p     == ParseUint(path)
  IN IF p.ok
     THEN IF p.val = Uint64Zero
          THEN [engine |-> NoEngine, err |-> Errorf("ZeroCapacity", <<>>)]
          ELSE [engine |-> NewInMem(attrs, ToInt64(p.val)), err |-> Nil]
     ELSE [engine |-> NewRocksDB(attrs, path, cacheSize), err |-> Nil]

----------------------------------------------------------------------------
(* parseGossipBootstrapResolvers *)

LocalHost == <<"h">>

\* util.EnsureHost: an address with no host gets the local host
EnsureHost(addr) ==
  IF Len(addr) > 0 /\ addr[1] = ":" THEN LocalHost \o addr ELSE addr

SelfPrefix == <<"s", "e", "l", "f", ":", "/", "/">>

\* gossip.NewResolver: a descriptor of the address, or an error for an address
\* the environment rejects
NewResolver(address, bad) ==
  IF address \in bad
  THEN [resolver |-> <<>>, err |-> Errorf("Resolver", address)]
  ELSE [resolver |-> address, err |-> Nil]

\* mutant: on a failing address, the resolvers built so far are returned
RECURSIVE ResolverLoopPartial(_, _, _, _, _, _)
ResolverLoopPartial(addresses, i, addr, bad, bootstrapResolvers, calls) ==
  IF i > Len(addresses)
  THEN [resolvers |-> bootstrapResolvers, err |-> Nil, calls |-> calls]
  ELSE IF Len(addresses[i]) = 0
  THEN ResolverLoopPartial(addresses, i + 1, addr, bad, bootstrapResolvers, calls)
  ELSE LET address == IF HasPrefix(addresses[i], SelfPrefix)
                      THEN EnsureHost(addr) ELSE addresses[i]
           r       == NewResolver(address, bad)
           calls2  == Append(calls, Call("NewResolver", <<>>, address))
       IN IF r.err # Nil
          THEN [resolvers |-> bootstrapResolvers, err |-> r.err, calls |-> calls2]
          ELSE ResolverLoopPartial(addresses, i + 1, addr, bad,
                                   Append(bootstrapResolvers, r.resolver), calls2)

RECURSIVE ResolverLoop(_, _, _, _, _, _)
ResolverLoop(addresses, i, addr, bad, bootstrapResolvers, calls) ==
  IF i > Len(addresses)
  THEN [resolvers |-> bootstrapResolvers, err |-> Nil, calls |-> calls]
  ELSE IF Len(addresses[i]) = 0
  THEN ResolverLoop(addresses, i + 1, addr, bad, bootstrapResolvers, calls)
  ELSE LET address == IF HasPrefix(addresses[i], SelfPrefix)
                      THEN EnsureHost(addr) ELSE addresses[i]
           r       == NewResolver(address, bad)
           calls2  == Append(calls, Call("NewResolver", <<>>, address))
       IN IF r.err # Nil
          THEN [resolvers |-> <<>>, err |-> r.err, calls |-> calls2]
          ELSE ResolverLoop(addresses, i + 1, addr, bad,
                            Append(bootstrapResolvers, r.resolver), calls2)

parseGossipBootstrapResolvers(gossipBootstrap, addr, bad) ==
  ResolverLoop(Split(gossipBootstrap, ","), 1, addr, bad, <<>>, <<>>)

----------------------------------------------------------------------------
(* Context.Init *)

NotCalled == [kind |-> "notcalled", detail |-> <<>>]

\* mutant: a failing store is skipped and the loop goes on
RECURSIVE StoreLoopContinue(_, _, _, _, _)
StoreLoopContinue(storeSpecs, i, cacheSize, engines, calls) ==
  IF i > Len(storeSpecs)
  THEN [engines |-> engines, err |-> Nil, calls |-> calls]
  ELSE LET store == storeSpecs[i] IN
       IF Len(store) # 4
       THEN [engines |-> engines, err |-> Errorf("ParseStore", store[1]), calls |-> calls]
       ELSE LET e      == initEngine(store[2], store[3], cacheSize)
                calls2 == Append(calls, Call("initEngine", store[2], store[3]))
            IN IF e.err # Nil
               THEN StoreLoopContinue(storeSpecs, i + 1, cacheSize, engines, calls2)
               ELSE StoreLoopContinue(storeSpecs, i + 1, cacheSize,
                                      Append(engines, e.engine), calls2)

\* the loop over storeSpecs; a store is <<store[0], store[1], store[2], store[3]>>
RECURSIVE StoreLoop(_, _, _, _, _)
StoreLoop(storeSpecs, i, cacheSize, engines, calls) ==
  IF i > Len(storeSpecs)
  THEN [engines |-> engines, err |-> Nil, calls |-> calls]
  ELSE LET store == storeSpecs[i] IN
       IF Len(store) # 4
       THEN [engines |-> engines, err |-> Errorf("ParseStore", store[1]), calls |-> calls]
       ELSE LET e      == initEngine(store[2], store[3], cacheSize)
                calls2 == Append(calls, Call("initEngine", store[2], store[3]))
            IN IF e.err # Nil
               THEN [engines |-> engines, err |-> Errorf("InitEngine", store[1]),
                     calls |-> calls2]
               ELSE StoreLoop(storeSpecs, i + 1, cacheSize,
                              Append(engines, e.engine), calls2)

\* mutant: the engines of an earlier Init call are kept
KeepEngines == Engines

\* ctx.Engines = nil
ResetEngines == <<>>

\* the store phase: match storesRE, then build one engine per match
PhaseStores ==
  LET storeSpecs == FindAllStringSubmatch(Stores) IN
  IF Len(storeSpecs) = 0
  THEN [Engines |-> Engines, err |-> Errorf("InvalidStores", Stores), calls |-> <<>>]
  ELSE LET r == StoreLoop(storeSpecs, 1, CacheSize, ResetEngines, <<>>) IN
       [Engines |-> r.engines, err |-> r.err, calls |-> r.calls]

\* mutant: an empty resolver list is accepted
PhaseGossipNoEmptyCheck ==
  LET g == parseGossipBootstrapResolvers(GossipBootstrap, Addr, unresolvable) IN
  IF g.err # Nil
  THEN [resolvers |-> GossipBootstrapResolvers, err |-> g.err, calls |-> g.calls]
  ELSE [resolvers |-> g.resolvers, err |-> Nil, calls |-> g.calls]

\* the gossip phase: parse the resolvers, reject an empty list, assign
PhaseGossip ==
  LET g == parseGossipBootstrapResolvers(GossipBootstrap, Addr, unresolvable) IN
  IF g.err # Nil
  THEN [resolvers |-> GossipBootstrapResolvers, err |-> g.err, calls |-> g.calls]
  ELSE IF Len(g.resolvers) = 0
  THEN [resolvers |-> GossipBootstrapResolvers, err |-> Errorf("NoGossip", <<>>),
        calls |-> g.calls]
  ELSE [resolvers |-> g.resolvers, err |-> Nil, calls |-> g.calls]

\* mutant: the gossip phase runs, and assigns, before the store phase
InitResultGossipFirst ==
  LET g == PhaseGossip IN
  IF g.err # Nil
  THEN [Engines |-> Engines, NodeAttributes |-> NodeAttributes,
        GossipBootstrapResolvers |-> GossipBootstrapResolvers,
        err |-> g.err, calls |-> g.calls]
  ELSE LET s == PhaseStores IN
       IF s.err # Nil
       THEN [Engines |-> s.Engines, NodeAttributes |-> NodeAttributes,
             GossipBootstrapResolvers |-> g.resolvers,
             err |-> s.err, calls |-> g.calls \o s.calls]
       ELSE [Engines |-> s.Engines, NodeAttributes |-> parseAttributes(Attrs),
             GossipBootstrapResolvers |-> g.resolvers, err |-> Nil,
             calls |-> g.calls \o s.calls \o <<Call("parseAttributes", Attrs, <<>>)>>]

\* the fields and the error one Init call leaves, from the current state
InitResult ==
  LET s == PhaseStores IN
  IF s.err # Nil
  THEN [Engines |-> s.Engines, NodeAttributes |-> NodeAttributes,
        GossipBootstrapResolvers |-> GossipBootstrapResolvers,
        err |-> s.err, calls |-> s.calls]
  ELSE LET g == PhaseGossip IN
       [Engines |-> s.Engines, NodeAttributes |-> parseAttributes(Attrs),
        GossipBootstrapResolvers |-> g.resolvers, err |-> g.err,
        calls |-> s.calls \o <<Call("parseAttributes", Attrs, <<>>)>> \o g.calls]

ContextInit ==
  \E r \in {InitResult} :
  /\ Engines' = r.Engines
  /\ NodeAttributes' = r.NodeAttributes
  /\ GossipBootstrapResolvers' = r.GossipBootstrapResolvers
  /\ initErr' = r.err
  /\ initCalls' = r.calls
  /\ initOK' = (initOK \/ r.err = Nil)
  /\ changed' = FALSE
  /\ again' = (~changed /\ initErr = Nil)
  /\ UNCHANGED <<Addr, Stores, Attrs, GossipBootstrap, CacheSize, unresolvable>>
  /\ UNCHANGED httpVars

----------------------------------------------------------------------------
(* NewContext and the flags *)

defaultAddr == <<":", "8", "0", "8", "0">>

defaultCacheSize == 1073741824

Threads == 1..NumThreads

\* the zero values of the flags NewContext does not set
ZeroFlags ==
  /\ Stores = <<>>
  /\ Attrs = <<>>
  /\ GossipBootstrap = <<>>

\* the zero values of the parsed fields and of the http client
ZeroParsed ==
  /\ Engines = <<>>
  /\ NodeAttributes = <<>>
  /\ GossipBootstrapResolvers = <<>>
  /\ httpClient = 0
  /\ httpClientMu = 0

\* no call has been made yet
NoCalls ==
  /\ initErr = NotCalled
  /\ initCalls = <<>>
  /\ initOK = FALSE
  /\ changed = FALSE
  /\ again = FALSE
  /\ pc = [t \in Threads |-> "idle"]
  /\ err = [t \in Threads |-> Nil]
  /\ ret = [t \in Threads |-> [client |-> 0, err |-> Nil]]
  /\ tried = [t \in Threads |-> FALSE]
  /\ constructions = 0
  /\ failures = 0

\* the addresses the environment may reject
Environments == {{}, {<<"y">>, <<"h", ":", "8", "0", "8", "0">>}}

NewContext ==
  /\ Addr = defaultAddr
  /\ CacheSize = defaultCacheSize
  /\ ZeroFlags
  /\ ZeroParsed
  /\ NoCalls
  /\ unresolvable \in Environments

StoresFlags ==
  { <<>>,
    <<"a", "=", "1">>,
    <<"a", "=", "1", ",", "b", "=", "0", ",", "c", "=", "2">>,
    <<"a", ":", "b", "=", "/", "d", ",", "c", "=", "2">> }

AttrsFlags == { <<>>, <<"a", ":", "b">> }

GossipFlags ==
  { <<>>, <<",">>, <<"x">>, <<"x", ",", "y">>,
    <<"s", "e", "l", "f", ":", "/", "/">> }

AddrFlags == { defaultAddr, <<"n", ":", "1">> }

\* the caller sets one flag of the Context (server/cli InitFlags)
SetFlags ==
  /\ \/ \E a \in AddrFlags \ {Addr} :
          Addr' = a /\ UNCHANGED <<Stores, Attrs, GossipBootstrap>>
     \/ \E st \in StoresFlags \ {Stores} :
          Stores' = st /\ UNCHANGED <<Addr, Attrs, GossipBootstrap>>
     \/ \E at \in AttrsFlags \ {Attrs} :
          Attrs' = at /\ UNCHANGED <<Addr, Stores, GossipBootstrap>>
     \/ \E g \in GossipFlags \ {GossipBootstrap} :
          GossipBootstrap' = g /\ UNCHANGED <<Addr, Stores, Attrs>>
  /\ changed' = TRUE
  /\ UNCHANGED <<CacheSize, Engines, NodeAttributes, GossipBootstrapResolvers,
                 unresolvable, initErr, initCalls, initOK, again>>
  /\ UNCHANGED httpVars

----------------------------------------------------------------------------
(* Init on every short Stores flag, and on chosen longer ones *)

BoundedStrings(alphabet, n) == UNION {[1..k -> alphabet] : k \in 0..n}

StoreAlphabet == {"a", "1", "=", ","}

StoreSamples ==
  { <<"m", "e", "m", "=", "0">>,
    <<"m", "e", "m", "=", "1", "0", "7", "3", "7", "4", "1", "8", "2", "4">>,
    <<"h", "d", "d", ":", "7", "2", "0", "0", "r", "p", "m", "=", "/", "m", "n", "t", "/", "h", "d", "a", "1", ",", "s", "s", "d", "=", "/", "m", "n", "t", "/", "s", "s", "d", "0", "1">>,
    <<"a", "=", "0", "0">>,
    <<"a", "=", "1", ",", "b", "=", "0", ",", "c", "=", "2">>,
    <<"a", "=", "1", ",", "b", "=", "/", "d", ",", "c", "=", "2">>,
    <<"a", "=", "9", "2", "2", "3", "3", "7", "2", "0", "3", "6", "8", "5", "4", "7", "7", "5", "8", "0", "7">>,
    <<"a", "=", "9", "2", "2", "3", "3", "7", "2", "0", "3", "6", "8", "5", "4", "7", "7", "5", "8", "0", "8">>,
    <<"a", "=", "1", "8", "4", "4", "6", "7", "4", "4", "0", "7", "3", "7", "0", "9", "5", "5", "1", "6", "1", "5">>,
    <<"a", "=", "1", "8", "4", "4", "6", "7", "4", "4", "0", "7", "3", "7", "0", "9", "5", "5", "1", "6", "1", "6">>,
    <<"a", "=", "-", "1">>,
    <<"a", "=", "+", "1">>,
    <<"a", "=", "1", "x">> }

\* a Context whose flags were set before the first Init call
StoresInit ==
  /\ Addr = defaultAddr
  /\ \/ Stores \in BoundedStrings(StoreAlphabet, MaxStoresLen) /\ CacheSize = defaultCacheSize
     \/ Stores \in StoreSamples /\ CacheSize \in {defaultCacheSize, 64 * 1024}
  /\ Attrs = <<>>
  /\ GossipBootstrap = <<"x">>
  /\ ZeroParsed
  /\ NoCalls
  /\ unresolvable = {}

NextStores == ContextInit

SpecStores == StoresInit /\ [][NextStores]_vars

AttrAlphabet == {"a", "b", ":"}

AttrSamples ==
  { <<"s", "s", "d", ":", "7", "2", "0", "0", "r", "p", "m", ":", "s", "s", "d">> }

AttrsInit ==
  /\ Addr = defaultAddr
  /\ CacheSize = defaultCacheSize
  /\ Stores = <<"a", "=", "1">>
  /\ Attrs \in BoundedStrings(AttrAlphabet, MaxAttrLen) \cup AttrSamples
  /\ GossipBootstrap = <<"x">>
  /\ ZeroParsed
  /\ NoCalls
  /\ unresolvable = {}

NextAttrs == ContextInit

SpecAttrs == AttrsInit /\ [][NextAttrs]_vars

----------------------------------------------------------------------------
(* GetHTTPClient *)

\* client.NewHTTPClient: a new client and no error, or no client and an error
NewHTTPClient(n) ==
  { [client |-> n + 1, err |-> Nil],
    [client |-> 0, err |-> Errorf("NewHTTPClient", <<>>)] }

\* a caller enters GetHTTPClient; var err error
GetHTTPClientCall(t) ==
  /\ pc[t] \in {"idle", "done"}
  /\ pc' = [pc EXCEPT ![t] = "lock"]
  /\ err' = [err EXCEPT ![t] = Nil]
  /\ tried' = [tried EXCEPT ![t] = FALSE]
  /\ UNCHANGED <<httpClient, httpClientMu, ret, constructions, failures>>
  /\ UNCHANGED ctxVars

\* mutant: Lock does not wait for the holder
LockNoExclusion(t) ==
  /\ pc[t] = "lock"
  /\ httpClientMu' = t
  /\ pc' = [pc EXCEPT ![t] = "check"]
  /\ UNCHANGED <<httpClient, err, ret, tried, constructions, failures>>
  /\ UNCHANGED ctxVars

\* ctx.httpClientMu.Lock()
GetHTTPClientLock(t) ==
  /\ pc[t] = "lock"
  /\ httpClientMu = 0
  /\ httpClientMu' = t
  /\ pc' = [pc EXCEPT ![t] = "check"]
  /\ UNCHANGED <<httpClient, err, ret, tried, constructions, failures>>
  /\ UNCHANGED ctxVars

\* if ctx.httpClient == nil
GetHTTPClientCheck(t) ==
  /\ pc[t] = "check"
  /\ pc' = [pc EXCEPT ![t] = IF httpClient = 0 THEN "construct" ELSE "return"]
  /\ UNCHANGED <<httpClient, httpClientMu, err, ret, tried, constructions, failures>>
  /\ UNCHANGED ctxVars

\* ctx.httpClient, err = client.NewHTTPClient(ctx.Certs)
GetHTTPClientConstruct(t) ==
  /\ pc[t] = "construct"
  /\ \E r \in NewHTTPClient(constructions) :
       /\ r.err = Nil \/ failures < MaxFailures
       /\ httpClient' = r.client
       /\ err' = [err EXCEPT ![t] = r.err]
       /\ failures' = IF r.err = Nil THEN failures ELSE failures + 1
  /\ constructions' = constructions + 1
  /\ tried' = [tried EXCEPT ![t] = TRUE]
  /\ pc' = [pc EXCEPT ![t] = "return"]
  /\ UNCHANGED <<httpClientMu, ret>>
  /\ UNCHANGED ctxVars

\* mutant: the lock is released only when there is no error
ReturnKeepLockOnError(t) ==
  /\ pc[t] = "return"
  /\ ret' = [ret EXCEPT ![t] = [client |-> httpClient, err |-> err[t]]]
  /\ httpClientMu' = IF err[t] = Nil THEN 0 ELSE httpClientMu
  /\ pc' = [pc EXCEPT ![t] = "done"]
  /\ UNCHANGED <<httpClient, err, tried, constructions, failures>>
  /\ UNCHANGED ctxVars

\* return ctx.httpClient, err; then the deferred ctx.httpClientMu.Unlock()
GetHTTPClientReturn(t) ==
  /\ pc[t] = "return"
  /\ ret' = [ret EXCEPT ![t] = [client |-> httpClient, err |-> err[t]]]
  /\ httpClientMu' = 0
  /\ pc' = [pc EXCEPT ![t] = "done"]
  /\ UNCHANGED <<httpClient, err, tried, constructions, failures>>
  /\ UNCHANGED ctxVars

NextHTTP ==
  \E t \in Threads :
    \/ GetHTTPClientCall(t)
    \/ GetHTTPClientLock(t)
    \/ GetHTTPClientCheck(t)
    \/ GetHTTPClientConstruct(t)
    \/ GetHTTPClientReturn(t)

SpecHTTP == NewContext /\ [][NextHTTP]_vars

Next ==
  \/ SetFlags
  \/ ContextInit

Spec == NewContext /\ [][Next]_vars

----------------------------------------------------------------------------
(* Properties of Init *)

\* the state is the one an Init call left: no flag was set since
AfterInit == initErr # NotCalled /\ ~changed

\* the step is an Init call: it sets no flag and is no step of GetHTTPClient
InitStep ==
  /\ ~changed'
  /\ UNCHANGED <<Addr, Stores, Attrs, GossipBootstrap, CacheSize>>
  /\ UNCHANGED httpVars

EngineCalls(calls) == SelectSeq(calls, LAMBDA c : c.fn = "initEngine")

ResolverCalls(calls) == SelectSeq(calls, LAMBDA c : c.fn = "NewResolver")

\* a location made of zeros only: the integer zero
IsZeroLocation(path) == Len(path) > 0 /\ \A i \in 1..Len(path) : path[i] = "0"

PhaseRank(c) ==
  CASE c.fn = "initEngine" -> 1
    [] c.fn = "parseAttributes" -> 2
    [] c.fn = "NewResolver" -> 3

\* the call fails: a zero-capacity store or an address the environment rejects
FailingCall(c) ==
  \/ c.fn = "initEngine" /\ IsZeroLocation(c.b)
  \/ c.fn = "NewResolver" /\ c.b \in unresolvable

\* the address a gossip token is resolved as
ResolvedAs(token) == IF HasPrefix(token, SelfPrefix) THEN EnsureHost(Addr) ELSE token

\* the non-empty tokens of GossipBootstrap
GossipTokens ==
  LET parts == Split(GossipBootstrap, ",") IN
  {parts[i] : i \in {j \in 1..Len(parts) : Len(parts[j]) > 0}}

\* C3 as stated: while no Init call has returned success, Engines,
\* NodeAttributes and GossipBootstrapResolvers are all nil/empty.
C3_AsStated ==
  ~initOK => /\ Engines = <<>>
             /\ NodeAttributes = <<>>
             /\ GossipBootstrapResolvers = <<>>

\* C3 amended: before the first Init call all three derived fields are
\* nil/empty; while no Init call has returned success GossipBootstrapResolvers
\* is nil/empty (a failed Init may have populated Engines and NodeAttributes);
\* after a successful Init call Engines and GossipBootstrapResolvers are
\* non-empty.
C3_DerivedFields ==
  /\ initErr = NotCalled =>
       Engines = <<>> /\ NodeAttributes = <<>> /\ GossipBootstrapResolvers = <<>>
  /\ ~initOK => GossipBootstrapResolvers = <<>>
  /\ (AfterInit /\ initErr = Nil) =>
       Engines # <<>> /\ GossipBootstrapResolvers # <<>>

\* a failed Init call has left Engines and NodeAttributes populated
C3_Witness ==
  /\ AfterInit /\ ~initOK
  /\ initErr.kind \in {"Resolver", "NoGossip"}
  /\ Engines # <<>>
  /\ NodeAttributes # <<>>
  /\ GossipBootstrapResolvers = <<>>

C4_Step ==
  LET calls == initCalls'
      e     == initErr'
  IN /\ \A i, j \in 1..Len(calls) : i < j => PhaseRank(calls[i]) <= PhaseRank(calls[j])
     /\ \A k \in 1..Len(calls) : FailingCall(calls[k]) => k = Len(calls) /\ e # Nil
     /\ e.kind = "InvalidStores" => calls = <<>> /\ Engines' = Engines
     /\ e.kind = "InitEngine" =>
          /\ calls # <<>> /\ calls[Len(calls)].fn = "initEngine"
          /\ Len(Engines') = Len(calls) - 1
     /\ e.kind \in {"InvalidStores", "ParseStore", "InitEngine"} =>
          /\ NodeAttributes' = NodeAttributes
          /\ \A k \in 1..Len(calls) : PhaseRank(calls[k]) = 1
     /\ e.kind \in {"Resolver", "NoGossip", "nil"} =>
          /\ Len(Engines') = Len(EngineCalls(calls))
          /\ \E k \in 1..Len(calls) : calls[k].fn = "parseAttributes"
     /\ e.kind = "Resolver" => calls[Len(calls)].fn = "NewResolver"
     /\ e # Nil => GossipBootstrapResolvers' = GossipBootstrapResolvers
     /\ e = Nil => GossipBootstrapResolvers' =
                     [k \in 1..Len(ResolverCalls(calls)) |-> ResolverCalls(calls)[k].b]

\* C4: Init runs store parsing and engine construction, then node-attribute
\* parsing, then gossip parsing, then the resolver non-emptiness check; the
\* first failing call is the last call Init makes: no engine is built after a
\* failing store, NodeAttributes is not assigned after a store failure and
\* GossipBootstrapResolvers is not assigned after any failure.
C4_PhasesAbort == [][InitStep => C4_Step]_vars

\* Init stopped at the failing second store of three
C4_Witness ==
  /\ AfterInit
  /\ initErr.kind = "InitEngine"
  /\ Len(FindAllStringSubmatch(Stores)) = 3
  /\ Len(Engines) = 1
  /\ Len(initCalls) = 2

\* C5: an Init call that repeats a successful one with no flag set in between
\* succeeds again and leaves Engines, NodeAttributes and
\* GossipBootstrapResolvers as the first call left them.
C5_InitIdempotent ==
  [][(InitStep /\ ~changed /\ initErr = Nil) =>
       /\ initErr' = Nil
       /\ Engines' = Engines
       /\ NodeAttributes' = NodeAttributes
       /\ GossipBootstrapResolvers' = GossipBootstrapResolvers]_vars

\* Init was called a second time on an unchanged configuration with two stores
C5_Witness ==
  /\ again /\ AfterInit /\ initErr = Nil
  /\ Len(Engines) = 2
  /\ Len(GossipBootstrapResolvers) >= 1

\* C8: when an Init call resolves a gossip token that fails to resolve,
\* parseGossipBootstrapResolvers returns an error and a nil list, not the
\* resolvers built from earlier tokens, Init returns that error and
\* GossipBootstrapResolvers keeps its value.
C8_ResolveFailure ==
  [][(/\ InitStep
      /\ PhaseStores.err = Nil
      /\ \E t \in GossipTokens : ResolvedAs(t) \in unresolvable) =>
       LET g == parseGossipBootstrapResolvers(GossipBootstrap, Addr, unresolvable) IN
       /\ g.err # Nil /\ g.err.kind = "Resolver" /\ g.err.detail \in unresolvable
       /\ g.resolvers = <<>>
       /\ initErr' = g.err
       /\ GossipBootstrapResolvers' = GossipBootstrapResolvers]_vars

\* the second token failed after the first was resolved, and the resolvers of
\* an earlier successful Init are still in place
C8_Witness ==
  /\ AfterInit
  /\ initErr.kind = "Resolver"
  /\ Len(ResolverCalls(initCalls)) = 2
  /\ GossipBootstrapResolvers # <<>>

\* C9: when GossipBootstrap holds no non-empty token, the parse yields zero
\* resolvers and no error, Init returns an error (the missing-gossip error when
\* the stores are valid) and GossipBootstrapResolvers is not assigned.
C9_NoGossip ==
  [][(InitStep /\ \A i \in 1..Len(GossipBootstrap) : GossipBootstrap[i] = ",") =>
       LET g == parseGossipBootstrapResolvers(GossipBootstrap, Addr, unresolvable) IN
       /\ g.resolvers = <<>> /\ g.err = Nil
       /\ initErr' # Nil
       /\ PhaseStores.err = Nil => initErr'.kind = "NoGossip"
       /\ GossipBootstrapResolvers' = GossipBootstrapResolvers]_vars

\* Init built the engines of a valid store flag and then failed on a
\* GossipBootstrap made of a comma only
C9_Witness ==
  /\ AfterInit
  /\ initErr.kind = "NoGossip"
  /\ GossipBootstrap = <<",">>
  /\ Engines # <<>>

----------------------------------------------------------------------------
(* Properties of the store flag *)

\* the comma-separated entries of a Stores flag
Entries(st) == Split(st, ",")

\* attrs=location with both sides non-empty, split at the first '='
EntryOK(e) == LET k == IndexFrom(e, "=", 1) IN k > 1 /\ k < Len(e)

EntryAttrs(e) == SubSeq(e, 1, IndexFrom(e, "=", 1) - 1)

EntryLocation(e) == SubSeq(e, IndexFrom(e, "=", 1) + 1, Len(e))

\* attrs=location(,attrs=location)*
MatchesGrammar(st) == \A i \in 1..Len(Entries(st)) : EntryOK(Entries(st)[i])

\* one initEngine call and one engine per entry, in input order
OneEnginePerEntry ==
  LET es    == Entries(Stores)
      calls == EngineCalls(initCalls)
  IN /\ Len(calls) = Len(es)
     /\ Len(Engines) = Len(es)
     /\ \A i \in 1..Len(es) :
          /\ calls[i].a = EntryAttrs(es[i])
          /\ calls[i].b = EntryLocation(es[i])
          /\ Engines[i] = initEngine(EntryAttrs(es[i]), EntryLocation(es[i]), CacheSize).engine
          /\ Engines[i].kind # "nil"

\* C6 as stated: for every Stores flag that matches the grammar with N
\* entries, Init makes N engine constructions, the i-th from the i-th entry,
\* and Engines holds the N engines in input order.
C6_AsStated == (AfterInit /\ MatchesGrammar(Stores)) => OneEnginePerEntry

\* C6 amended: the same, for the flags none of whose locations is the integer
\* zero (Init stops at a zero-capacity store).
C6_EnginePerEntry ==
  (/\ AfterInit
   /\ MatchesGrammar(Stores)
   /\ \A i \in 1..Len(Entries(Stores)) : ~IsZeroLocation(EntryLocation(Entries(Stores)[i])))
  => OneEnginePerEntry

\* Init built three engines from a flag of three entries
C6_Witness ==
  /\ AfterInit
  /\ MatchesGrammar(Stores)
  /\ Len(Entries(Stores)) = 3
  /\ Len(Engines) = 3
  /\ Len(EngineCalls(initCalls)) = 3

\* what C7 says the k-th initEngine call of the last Init call did
C7_Call(k) ==
  LET calls == EngineCalls(initCalls)
      attrs == parseAttributes(calls[k].a)
      p     == ParseUint(calls[k].b)
  IN IF p.ok
     THEN IF p.val = Uint64Zero
          THEN /\ k = Len(calls)
               /\ initErr.kind = "InitEngine"
               /\ Len(Engines) = k - 1
          ELSE /\ Len(Engines) >= k
               /\ Engines[k] = [kind |-> "InMem", attrs |-> attrs,
                                size |-> [neg |-> FALSE, mag |-> p.val],
                                dir |-> <<>>, cacheSize |-> 0]
     ELSE /\ Len(Engines) >= k
          /\ Engines[k] = [kind |-> "RocksDB", attrs |-> attrs, size |-> Int64Zero,
                           dir |-> calls[k].b, cacheSize |-> CacheSize]

\* C7: a location that parses as the base-10 unsigned 64-bit integer n gives
\* an error and no engine for n = 0 and an in-memory engine of capacity n, with
\* the parsed attributes, for every n > 0; any other location gives a
\* disk-backed engine with the parsed attributes, the location as path and
\* Context.CacheSize.
C7_AsStated ==
  AfterInit => \A k \in 1..Len(EngineCalls(initCalls)) : C7_Call(k)

----------------------------------------------------------------------------
(* Properties of parseAttributes *)

\* the positions where a maximal run of non-':' characters starts
RunStarts(s) == {i \in 1..Len(s) : s[i] # ":" /\ (i = 1 \/ s[i - 1] = ":")}

\* the run that starts at i
RunAt(s, i) ==
  LET last == CHOOSE j \in i..Len(s) :
                /\ \A k \in i..j : s[k] # ":"
                /\ j = Len(s) \/ s[j + 1] = ":"
  IN SubSeq(s, i, last)

\* the k-th smallest element of a set of positions
Kth(S, k) == CHOOSE x \in S : Cardinality({y \in S : y < x}) = k - 1

\* C10: parseAttributes never fails and returns exactly the maximal non-empty
\* runs between ':' separators, in input order, duplicates kept; an empty
\* input or one made of ':' only gives no attribute.
C10_ParseAttributes ==
  AfterInit =>
    /\ initErr = Nil
    /\ Len(NodeAttributes) = Cardinality(RunStarts(Attrs))
    /\ \A k \in 1..Len(NodeAttributes) :
         NodeAttributes[k] = RunAt(Attrs, Kth(RunStarts(Attrs), k))
    /\ (\A i \in 1..Len(Attrs) : Attrs[i] = ":") => NodeAttributes = <<>>

\* Init parsed "ssd:7200rpm:ssd" into ssd, 7200rpm, ssd
C10_Witness ==
  /\ AfterInit
  /\ Attrs \in AttrSamples
  /\ NodeAttributes = <<<<"s", "s", "d">>, <<"7", "2", "0", "0", "r", "p", "m">>,
                        <<"s", "s", "d">>>>

----------------------------------------------------------------------------
(* Properties of GetHTTPClient *)

InGetHTTPClient(t) == pc[t] \in {"check", "construct", "return"}

\* C1: whatever the interleaving of the callers, at most one construction
\* succeeds and every call that returns no error returns the one cached
\* client; when no construction fails, NewHTTPClient is called exactly once
\* and every call returns that client and no error.
C1_OneConstruction ==
  /\ constructions - failures <= 1
  /\ \A t \in Threads :
       (pc[t] = "done" /\ ret[t].err = Nil) =>
         ret[t].client # 0 /\ ret[t].client = httpClient
  /\ failures = 0 =>
       /\ constructions <= 1
       /\ \A t \in Threads :
            pc[t] = "done" => constructions = 1 /\ ret[t] = [client |-> 1, err |-> Nil]

\* every caller has returned the client that exactly one of them constructed
C1_Witness ==
  /\ failures = 0
  /\ constructions = 1
  /\ \A t \in Threads : pc[t] = "done" /\ ret[t].client = 1
  /\ Cardinality({t \in Threads : tried[t]}) = 1

\* C2: a failed construction leaves httpClient nil and caches no error, the
\* caller gets the error of its own construction and no client, the lock is
\* held only inside the critical section (so never by a caller that has
\* returned), and a call skips construction only when a client is cached:
\* every call made before a construction succeeds constructs again.
C2_FailureNotCached ==
  /\ constructions = failures => httpClient = 0
  /\ \A t \in Threads :
       /\ pc[t] = "done" => ret[t].err = err[t]
       /\ (pc[t] = "done" /\ ret[t].err # Nil) => tried[t] /\ ret[t].client = 0
       /\ (pc[t] \in {"return", "done"} /\ ~tried[t]) =>
            httpClient # 0 /\ err[t] = Nil
       /\ httpClientMu = t => InGetHTTPClient(t)
  /\ httpClientMu \in Threads \cup {0}
  /\ (\A t \in Threads : ~InGetHTTPClient(t)) => httpClientMu = 0

\* one call returned a construction error, a later construction succeeded
C2_Witness ==
  /\ failures >= 1
  /\ httpClient # 0
  /\ \E t, u \in Threads :
       /\ pc[t] = "done" /\ ret[t].err # Nil /\ ret[t].client = 0
       /\ pc[u] = "done" /\ ret[u].err = Nil /\ ret[u].client = httpClient /\ tried[u]

====
